---- MODULE Spec2Model ----
(***************************************************************************)
(* Model of kubectl-rook-ceph: the health evaluator (pkg/health/health.go) *)
(* and the `ceph` passthrough command (cmd/commands/ceph.go).              *)
(*                                                                         *)
(* Go strings that the code inspects with strings.Contains or              *)
(* strings.HasPrefix are sequences of one-character strings; strings that  *)
(* are only compared for equality are TLA+ strings.                        *)
(***************************************************************************)
EXTENDS Integers, Sequences, FiniteSets, TLC

VARIABLES cmd, operatorNamespace, clusterNamespace, args, pc, term, cur, out,
          trace, cephStatusOut, podLists

vars == <<cmd, operatorNamespace, clusterNamespace, args, pc, term, cur, out,
          trace, cephStatusOut, podLists>>

\* ------------------------------------------------------------------ bounds
MaxPods == 3
MaxNsPods == 2
MaxPgs == 2
MaxArgs == 3

\* ------------------------------------------------------- program constants
MinNodes == 3
MinMgr == 1

\* ------------------------------------------------------------ Go strings
Contains(s, substr) ==
  \E i \in 1..(Len(s) - Len(substr) + 1) : SubSeq(s, i, i + Len(substr) - 1) = substr

HasPrefix(s, prefix) ==
  Len(s) >= Len(prefix) /\ SubSeq(s, 1, Len(prefix)) = prefix

Plus == <<"+">>
S_active == <<"a", "c", "t", "i", "v", "e">>
S_clean == <<"c", "l", "e", "a", "n">>
S_down == <<"d", "o", "w", "n">>
S_incomplete == <<"i", "n", "c", "o", "m", "p", "l", "e", "t", "e">>
S_snaptrim_error == <<"s", "n", "a", "p", "t", "r", "i", "m", "_", "e", "r", "r", "o", "r">>
S_undersized == <<"u", "n", "d", "e", "r", "s", "i", "z", "e", "d">>
S_degraded == <<"d", "e", "g", "r", "a", "d", "e", "d">>
S_remapped == <<"r", "e", "m", "a", "p", "p", "e", "d">>
S_osd == <<"o", "s", "d">>
S_mon == <<"m", "o", "n">>
S_mgr == <<"m", "g", "r">>
S_osdDot == <<"o", "s", "d", ".">>
S_daemon == <<"d", "a", "e", "m", "o", "n">>
S_status == <<"s", "t", "a", "t", "u", "s">>
S_appRookCeph == <<"a", "p", "p", "=", "r", "o", "o", "k", "-", "c", "e", "p", "h", "-">>

ActiveClean == S_active \o Plus \o S_clean
LabelMon == S_appRookCeph \o S_mon
LabelOsd == S_appRookCeph \o S_osd
LabelMgr == S_appRookCeph \o S_mgr
NoLabel == << >>

\* ------------------------------------------------------------- data model
Phases == {"Running", "Pending", "Failed"}
RolePhases == {"Running", "Pending"}
RoleNodes == <<"node-a", "node-b", "node-c">>
NsNodes == <<"node-a">>
PodNames == <<"pod-1", "pod-2", "pod-3", "pod-4", "pod-5">>

NoPod == [name |-> "", phase |-> "", namespace |-> "", nodeName |-> ""]
NoPg == [stateName |-> << >>, count |-> 0]

PgStateEntry(stateName, count) == [stateName |-> stateName, count |-> count]

PgEntries ==
  { PgStateEntry(ActiveClean, 10),
    PgStateEntry(S_remapped, 2),
    PgStateEntry(S_active \o Plus \o S_undersized \o Plus \o S_degraded \o Plus \o S_down, 1),
    PgStateEntry(S_incomplete, 3),
    PgStateEntry(ActiveClean \o Plus \o S_snaptrim_error, 4) }

PgLists == UNION { [1..n -> PgEntries] : n \in 0..MaxPgs }

HealthValues == {"HEALTH_OK", "HEALTH_WARN", "HEALTH_ERR", "", "health_ok", "HEALTH_UNKNOWN"}

\* The text returned by `ceph -s --format json`, by what json.Unmarshal makes
\* of it: form "garbage" is not JSON, "badtype" is JSON whose fields have the
\* wrong types, "null" is the JSON literal null, "object" is a JSON object in
\* which health.status and pgmap.pgs_by_state may each be absent and which
\* may carry fields the struct does not name.
Payload(form, hasStatus, status, hasPgs, pgs, extra) ==
  [form |-> form, hasStatus |-> hasStatus, status |-> status,
   hasPgs |-> hasPgs, pgs |-> pgs, extra |-> extra]

NoPayload == Payload("none", FALSE, "", FALSE, << >>, FALSE)
DefaultPgs == <<PgStateEntry(ActiveClean, 10), PgStateEntry(S_remapped, 2)>>

Payloads ==
  { Payload(f, FALSE, "", FALSE, << >>, FALSE) : f \in {"garbage", "badtype", "null"} }
  \cup { Payload("object", TRUE, s, TRUE, DefaultPgs, x) : s \in HealthValues, x \in BOOLEAN }
  \cup { Payload("object", FALSE, "", hp, IF hp THEN DefaultPgs ELSE << >>, x) :
           hp \in BOOLEAN, x \in BOOLEAN }
  \cup { Payload("object", TRUE, "HEALTH_WARN", FALSE, << >>, x) : x \in BOOLEAN }
  \cup { Payload("object", TRUE, "HEALTH_WARN", TRUE, p, FALSE) : p \in PgLists }

\* The answers of one orchestrator pod query: up to max pods, the i-th named
\* PodNames[i]. Node names matter to the code only up to equality, so each
\* pod runs on a node used by an earlier pod of the list or on the next
\* unused one of nodes.
FirstUse(g, n) ==
  \A i \in 1..n : \A k \in 1..(g[i] - 1) : \E j \in 1..(i - 1) : g[j] = k

PodSeqs(namespace, phases, nodes, max) ==
  UNION { { [i \in 1..n |-> [name |-> PodNames[i], phase |-> f[i].phase,
                              namespace |-> namespace, nodeName |-> nodes[f[i].node]]] :
              f \in { h \in [1..n -> [phase : phases, node : 1..Len(nodes)]] :
                        FirstUse([i \in 1..n |-> h[i].node], n) } } : n \in 0..max }

ListResult(namespace, label, err, items) ==
  [namespace |-> namespace, label |-> label, err |-> err, items |-> items]

ListPods(namespace, label, phases, nodes, max) ==
  { ListResult(namespace, label, TRUE, << >>) }
  \cup { ListResult(namespace, label, FALSE, items) :
           items \in PodSeqs(namespace, phases, nodes, max) }

\* ------------------------------------------------------------ output lines
Log(chan, text, arg) ==
  [chan |-> chan, kind |-> "log", text |-> text, arg |-> arg, pod |-> NoPod, pg |-> NoPg]

PodLine(p) ==
  [chan |-> "Stdout", kind |-> "pod", text |-> "", arg |-> "", pod |-> p, pg |-> NoPg]

PgLine(chan, e) ==
  [chan |-> chan, kind |-> "pg", text |-> "PgState PgCount", arg |-> "", pod |-> NoPod, pg |-> e]

Blank ==
  [chan |-> "Stdout", kind |-> "blank", text |-> "", arg |-> "", pod |-> NoPod, pg |-> NoPg]

PodLines(items) == [i \in 1..Len(items) |-> PodLine(items[i])]

\* ------------------------------------------------------------ trace events
E(ev, who, sel) == [ev |-> ev, who |-> who, sel |-> sel]

Result(o, t, tm) == [out |-> o, trace |-> t, term |-> tm]

\* logging.Fatal: writes the message and ends the process.
Fatal(text) == Result(<<Log("Fatal", text, "")>>, <<E("fatal", "", << >>)>>, "exit")

\* ----------------------------------------------------- unMarshalCephStatus
\* The base64 encode/decode pair of lines 188-189 returns the bytes it was
\* given and its error branch is never taken; json.Unmarshal rejects text
\* that is not JSON or whose fields have the wrong types, leaves the pointer
\* nil for the literal null (line 199 then dereferences it), and fills the
\* struct's zero values for fields the object does not have.
unMarshalCephStatus(payload) ==
  LET fetch == <<E("exec", "operator", << >>)>> IN
  IF payload.form \in {"garbage", "badtype"}
  THEN [term |-> "exit", status |-> "", pgs |-> << >>,
        out |-> Fatal("json unmarshal").out, trace |-> fetch \o Fatal("json unmarshal").trace]
  ELSE IF payload.form = "null"
  THEN [term |-> "panic", status |-> "", pgs |-> << >>,
        out |-> << >>, trace |-> fetch \o <<E("panic", "", << >>)>>]
  ELSE [term |-> "ok",
        status |-> IF payload.hasStatus THEN payload.status ELSE "",
        pgs |-> IF payload.hasPgs THEN payload.pgs ELSE << >>,
        out |-> << >>, trace |-> fetch]

\* -------------------------------------------------------- checkPodsOnNodes
DaemonType(label) ==
  IF Contains(label, S_osd) THEN "osd"
  ELSE IF Contains(label, S_mon) THEN "mon"
  ELSE ""

RECURSIVE nodeListFrom(_, _, _)
nodeListFrom(items, i, m) ==
  IF i > Len(items) THEN m
  ELSE LET nodeName == items[i].nodeName IN
       nodeListFrom(items, i + 1,
                    IF nodeName \in DOMAIN m THEN m ELSE m @@ (nodeName :> items[i].name))

NodeListByPod(items) == [n \in {items[i].name : i \in 1..Len(items)} |-> n]

NodeList(items) == nodeListFrom(items, 1, [n \in {} |-> ""])

checkPodsOnNodes(clusterNs, label, res) ==
  LET daemonType == DaemonType(label)
      errLines == IF res.err
                  THEN <<Log("Error", "failed to list pods with label", daemonType)>>
                  ELSE << >>
      nodeList == NodeList(res.items)
      warnLines == IF Cardinality(DOMAIN nodeList) < MinNodes
                   THEN <<Log("Warning", "At least three pods should running on different nodes", daemonType)>>
                   ELSE << >>
  IN Result(errLines \o warnLines \o PodLines(res.items),
            <<E("list", clusterNs, label)>>, "ok")

\* ---------------------------------------------------------- checkMonQuorum
HealthSeverityLoose(cephHealthDetails) ==
  IF cephHealthDetails = "HEALTH_OK" THEN "Info"
  ELSE IF cephHealthDetails = "HEALTH_ERR" THEN "Error"
  ELSE "Warning"

HealthSeverity(cephHealthDetails) ==
  IF cephHealthDetails = "HEALTH_OK" THEN "Info"
  ELSE IF cephHealthDetails = "HEALTH_WARN" THEN "Warning"
  ELSE IF cephHealthDetails = "HEALTH_ERR" THEN "Error"
  ELSE "None"

checkMonQuorum(payload) ==
  LET d == unMarshalCephStatus(payload)
      sev == HealthSeverity(d.status)
  IN IF d.term # "ok" THEN Result(d.out, d.trace, d.term)
     ELSE Result(IF sev = "None" THEN << >> ELSE <<Log(sev, d.status, "")>>, d.trace, "ok")

\* ------------------------------------------------------ CheckAllPodsStatus
getPodRunningStatus(namespace, res) ==
  [podRunning |-> SelectSeq(res.items, LAMBDA p : ~(p.phase # "Running")),
   podNotRunning |-> SelectSeq(res.items, LAMBDA p : p.phase # "Running"),
   out |-> IF res.err THEN <<Log("Error", "failed to list pods in namespace", namespace)>>
           ELSE << >>,
   trace |-> <<E("list", namespace, NoLabel)>>]

CensusOutput(errOut, podRunning, podNotRunning, tr) ==
  Result(errOut
         \o <<Log("Info", "Pods that are in 'Running' status", "")>>
         \o PodLines(podRunning)
         \o <<Blank, Log("Warning", "Pods that are 'Not' in 'Running' status", "")>>
         \o PodLines(podNotRunning),
         tr, "ok")

\* opRes answers the operator-namespace query; clRes answers the
\* cluster-namespace query when one is made.
CheckAllPodsStatusTwice(operatorNs, clusterNs, opRes, clRes) ==
  LET op == getPodRunningStatus(operatorNs, opRes)
      cl == getPodRunningStatus(clusterNs, IF operatorNs # clusterNs THEN clRes ELSE opRes)
  IN CensusOutput(op.out \o cl.out, op.podRunning \o cl.podRunning,
                  op.podNotRunning \o cl.podNotRunning, op.trace \o cl.trace)

CheckAllPodsStatus(operatorNs, clusterNs, opRes, clRes) ==
  LET op == getPodRunningStatus(operatorNs, opRes)
      cl == getPodRunningStatus(clusterNs, clRes)
  IN IF operatorNs # clusterNs
     THEN CensusOutput(op.out \o cl.out, op.podRunning \o cl.podRunning,
                       op.podNotRunning \o cl.podNotRunning, op.trace \o cl.trace)
     ELSE CensusOutput(op.out, op.podRunning, op.podNotRunning, op.trace)

\* ------------------------------------------------------------ checkPgStatus
PgSeverityExact(stateName) ==
  IF stateName = ActiveClean THEN "Info"
  ELSE IF stateName = S_down \/ stateName = S_incomplete \/ stateName = S_snaptrim_error
  THEN "Error"
  ELSE "Warning"

PgSeverity(stateName) ==
  IF stateName = ActiveClean THEN "Info"
  ELSE IF Contains(stateName, S_down) \/ Contains(stateName, S_incomplete)
          \/ Contains(stateName, S_snaptrim_error)
  THEN "Error"
  ELSE "Warning"

checkPgStatus(payload) ==
  LET d == unMarshalCephStatus(payload) IN
  IF d.term # "ok" THEN Result(d.out, d.trace, d.term)
  ELSE Result([i \in 1..Len(d.pgs) |-> PgLine(PgSeverity(d.pgs[i].stateName), d.pgs[i])],
              d.trace, "ok")

\* ---------------------------------------------- checkMgrPodsStatusAndCounts
MgrErr == <<Log("Error", "failed to list mgr pods with label", "mgr")>>

\* Lines 176-182: the count test over counted, then one line per pod.
MgrOutput(counted, items) ==
  (IF Len(counted) < MinMgr
   THEN <<Log("Warning", "At least one mgr pod should be running", "")>>
   ELSE << >>)
  \o PodLines(items)

checkMgrFallThrough(clusterNs, res) ==
  Result((IF res.err THEN MgrErr ELSE << >>) \o MgrOutput(res.items, res.items),
         <<E("list", clusterNs, LabelMgr)>>, "ok")

checkMgrRunningOnly(clusterNs, res) ==
  Result(IF res.err THEN MgrErr
         ELSE MgrOutput(SelectSeq(res.items, LAMBDA p : p.phase = "Running"), res.items),
         <<E("list", clusterNs, LabelMgr)>>, "ok")

checkMgrPodsStatusAndCounts(clusterNs, res) ==
  Result(IF res.err THEN MgrErr ELSE MgrOutput(res.items, res.items),
         <<E("list", clusterNs, LabelMgr)>>, "ok")

\* ------------------------------------------------------------------ Health
\* The checks of Health in call order; pc is the position of the next one.
HealthOrderGrouped == <<"mon", "osd", "quorum", "pods", "pg", "mgr">>

HealthOrder == <<"mon", "quorum", "osd", "pods", "pg", "mgr">>

\* fmt.Println() separates a check from the one before it.
Sep == IF pc > 1 THEN <<Blank>> ELSE << >>

\* One call of Health's body: the banner, the check, and where control goes.
\* cur names the check, out holds what the check wrote, trace grows by the
\* check's orchestrator queries and remote commands.
Step(name, banner, r, payload, lists) ==
  /\ cur' = name
  /\ out' = Sep \o banner \o r.out
  /\ trace' = trace \o <<E("check", name, << >>)>> \o r.trace
  /\ term' = IF r.term # "ok" THEN r.term
             ELSE IF pc = Len(HealthOrder) THEN "done" ELSE "running"
  /\ pc' = IF r.term = "ok" THEN pc + 1 ELSE pc
  /\ cephStatusOut' = payload
  /\ podLists' = lists
  /\ UNCHANGED <<cmd, operatorNamespace, clusterNamespace, args>>

At(name) ==
  /\ cmd = "health"
  /\ term = "running"
  /\ pc \in 1..Len(HealthOrder)
  /\ HealthOrder[pc] = name

HealthMon ==
  /\ At("mon")
  /\ \E res \in ListPods(clusterNamespace, LabelMon, RolePhases, RoleNodes, MaxPods) :
       Step("mon",
            <<Log("Info", "Checking if at least three mon pods are running on different nodes", "")>>,
            checkPodsOnNodes(clusterNamespace, LabelMon, res), NoPayload, <<res>>)

HealthQuorum ==
  /\ At("quorum")
  /\ \E payload \in Payloads :
       Step("quorum", <<Log("Info", "Checking mon quorum and ceph health details", "")>>,
            checkMonQuorum(payload), payload, << >>)

HealthOsd ==
  /\ At("osd")
  /\ \E res \in ListPods(clusterNamespace, LabelOsd, RolePhases, RoleNodes, MaxPods) :
       Step("osd",
            <<Log("Info", "Checking if at least three osd pods are running on different nodes", "")>>,
            checkPodsOnNodes(clusterNamespace, LabelOsd, res), NoPayload, <<res>>)

HealthPods ==
  /\ At("pods")
  /\ \E opRes \in ListPods(operatorNamespace, NoLabel, Phases, NsNodes, MaxNsPods) :
       \E clRes \in IF operatorNamespace # clusterNamespace
                    THEN ListPods(clusterNamespace, NoLabel, Phases, NsNodes, MaxNsPods)
                    ELSE {opRes} :
         Step("pods", << >>,
              CheckAllPodsStatus(operatorNamespace, clusterNamespace, opRes, clRes),
              NoPayload,
              IF operatorNamespace # clusterNamespace THEN <<opRes, clRes>> ELSE <<opRes>>)

HealthPg ==
  /\ At("pg")
  /\ \E payload \in Payloads :
       Step("pg", <<Log("Info", "Checking placement group status", "")>>,
            checkPgStatus(payload), payload, << >>)

HealthMgr ==
  /\ At("mgr")
  /\ \E res \in ListPods(clusterNamespace, LabelMgr, RolePhases, RoleNodes, MaxPods) :
       Step("mgr", <<Log("Info", "Checking if at least one mgr pod is running", "")>>,
            checkMgrPodsStatusAndCounts(clusterNamespace, res), NoPayload, <<res>>)

\* ------------------------------------------------------------- CephCmd.Run
ArgWords == {S_daemon, S_osdDot \o <<"0">>, S_osd, S_mon \o <<".", "a">>, S_status}

\* cobra.MinimumNArgs(1): Run is entered with at least one argument.
ArgLists == UNION { [1..n -> ArgWords] : n \in 1..MaxArgs }

Run(a) ==
  <<E("verify", "operator", << >>)>>
  \o (IF a[1] = S_daemon
      THEN IF Len(a) > 1
           THEN IF HasPrefix(a[2], S_osdDot) THEN <<E("exec", "osd", a[2])>> ELSE << >>
           ELSE << >>
      ELSE << >>)
  \o <<E("exec", "operator", << >>)>>

CephRun ==
  /\ cmd = "ceph"
  /\ term = "running"
  /\ cur' = "ceph"
  /\ out' = <<Log("Info", "running 'ceph' command with args", "")>>
  /\ trace' = trace \o Run(args)
  /\ term' = "done"
  /\ pc' = pc + 1
  /\ UNCHANGED <<cmd, operatorNamespace, clusterNamespace, args, cephStatusOut, podLists>>

\* ----------------------------------------------------------- specification
NamespacePairs == {<<"rook-ceph", "rook-ceph">>, <<"rook-ceph-operator", "rook-ceph">>}

Init ==
  /\ cmd \in {"health", "ceph"}
  /\ \E ns \in NamespacePairs : operatorNamespace = ns[1] /\ clusterNamespace = ns[2]
  /\ args \in IF cmd = "ceph" THEN ArgLists ELSE {<< >>}
  /\ pc = 1
  /\ term = "running"
  /\ cur = ""
  /\ out = << >>
  /\ trace = << >>
  /\ cephStatusOut = NoPayload
  /\ podLists = << >>

Next ==
  \/ HealthMon
  \/ HealthQuorum
  \/ HealthOsd
  \/ HealthPods
  \/ HealthPg
  \/ HealthMgr
  \/ CephRun

Spec == Init /\ [][Next]_vars

\* ------------------------------------------------------ observation helpers
Idx(seq, P(_)) == {i \in 1..Len(seq) : P(seq[i])}

IsCheck(e) == e.ev = "check"
IsList(e) == e.ev = "list"
IsExec(e) == e.ev = "exec"
IsPodLine(l) == l.kind = "pod"
IsPgLine(l) == l.kind = "pg"
IsWarning(l) == l.chan = "Warning"
IsError(l) == l.chan = "Error"

\* The checks run so far, in the order they ran.
ChecksRun ==
  LET c == SelectSeq(trace, IsCheck) IN [i \in 1..Len(c) |-> c[i].who]

\* What the check named by cur did: the events after its "check" event.
CurEvents ==
  LET k == CHOOSE i \in Idx(trace, IsCheck) : \A j \in Idx(trace, IsCheck) : j <= i
  IN SubSeq(trace, k + 1, Len(trace))

PodsPrinted ==
  LET l == SelectSeq(out, IsPodLine) IN [i \in 1..Len(l) |-> l[i].pod]

\* The lines of out that follow the line with this text.
After(text) ==
  LET k == CHOOSE i \in 1..Len(out) : out[i].text = text
  IN SubSeq(out, k + 1, Len(out))

IsPrefix(s, t) == Len(s) <= Len(t) /\ s = SubSeq(t, 1, Len(s))

DistinctNodes(items) == {items[i].nodeName : i \in 1..Len(items)}

\* ---------------------------------------------------------------------- C1
\* C1 (as claimed): the checks run in the order mon, osd, quorum, pods, pg,
\* mgr, and every remote status fetch of a health run is preceded by the osd
\* node-distribution query.
C1_GroupedOrder ==
  cmd = "health" =>
    /\ IsPrefix(ChecksRun, <<"mon", "osd", "quorum", "pods", "pg", "mgr">>)
    /\ \A i \in Idx(trace, IsExec) :
         \E j \in 1..(i - 1) : trace[j] = E("list", clusterNamespace, LabelOsd)

\* C1 (amended): the checks of a health run are a prefix of mon, quorum, osd,
\* pods, pg, mgr, all six when the run completes; the mon node-distribution
\* query precedes every remote status fetch, and the osd node-distribution
\* query comes after the quorum check's fetch.
C1_FixedOrder ==
  cmd = "health" =>
    /\ IsPrefix(ChecksRun, <<"mon", "quorum", "osd", "pods", "pg", "mgr">>)
    /\ term = "done" => ChecksRun = <<"mon", "quorum", "osd", "pods", "pg", "mgr">>
    /\ \A i \in Idx(trace, IsExec) :
         \E j \in 1..(i - 1) : trace[j] = E("list", clusterNamespace, LabelMon)
    /\ \A i \in 1..Len(trace) :
         trace[i] = E("list", clusterNamespace, LabelOsd) =>
           \E j \in 1..(i - 1) : IsExec(trace[j])

C1_Witness ==
  cmd = "health" /\ term = "done" /\ Len(ChecksRun) = 6

\* ---------------------------------------------------------------------- C2
\* C2: after the quorum check has fetched a payload that does not decode,
\* the run goes on to the remaining checks.
C2_DecodeFailureNoEarlyExit ==
  (cur = "quorum" /\ cephStatusOut.form \in {"garbage", "badtype"}) =>
    term = "running"

\* ---------------------------------------------------------------------- C3
\* C3 (as claimed): a failed pod query is logged once as Error, the check
\* then writes what it writes for an empty pod list, and the run goes on.
C3_AsEmptyList ==
  /\ (cur \in {"mon", "osd", "mgr"} /\ podLists[1].err) =>
       /\ Cardinality(Idx(out, IsError)) = 1
       /\ Cardinality(Idx(out, IsWarning)) = 1
       /\ PodsPrinted = << >>
       /\ term \in {"running", "done"}
  /\ cur = "pods" =>
       /\ Cardinality(Idx(out, IsError)) = Cardinality(Idx(podLists, LAMBDA r : r.err))
       /\ Cardinality(Idx(out, LAMBDA l : l.text = "Pods that are in 'Running' status")) = 1
       /\ Cardinality(Idx(out, IsWarning)) = 1
       /\ (\A k \in 1..Len(podLists) : podLists[k].err) => PodsPrinted = << >>
       /\ term = "running"

\* C3 (amended): a failed pod query is logged once as Error and the run goes
\* on; the mon and osd node-distribution checks and the pod census then write
\* what they write for an empty pod list, while the manager check writes
\* nothing more: no Warning and no listing line.
C3_QueryFailure ==
  /\ (cur \in {"mon", "osd"} /\ podLists[1].err) =>
       /\ Cardinality(Idx(out, IsError)) = 1
       /\ Cardinality(Idx(out, IsWarning)) = 1
       /\ PodsPrinted = << >>
       /\ term = "running"
  /\ (cur = "mgr" /\ podLists[1].err) =>
       /\ Cardinality(Idx(out, IsError)) = 1
       /\ Cardinality(Idx(out, IsWarning)) = 0
       /\ PodsPrinted = << >>
       /\ term = "done"
  /\ cur = "pods" =>
       /\ Cardinality(Idx(out, IsError)) = Cardinality(Idx(podLists, LAMBDA r : r.err))
       /\ Cardinality(Idx(out, LAMBDA l : l.text = "Pods that are in 'Running' status")) = 1
       /\ Cardinality(Idx(out, IsWarning)) = 1
       /\ (\A k \in 1..Len(podLists) : podLists[k].err) => PodsPrinted = << >>
       /\ term = "running"

C3_Witness ==
  cur = "mgr" /\ podLists[1].err /\ Cardinality(Idx(out, IsError)) = 1

\* ---------------------------------------------------------------------- C4
\* C4: the placement-group check writes one line per entry of the decoded
\* list, in list order and nothing else after its banner; the line is Info
\* iff the name is "active+clean", Error iff the name contains "down",
\* "incomplete" or "snaptrim_error", Warning otherwise.
C4_PgClassification ==
  (cur = "pg" /\ cephStatusOut.form = "object") =>
    LET pgs == IF cephStatusOut.hasPgs THEN cephStatusOut.pgs ELSE << >>
        body == After("Checking placement group status")
        errName(n) == \/ Contains(n, S_down)
                      \/ Contains(n, S_incomplete)
                      \/ Contains(n, S_snaptrim_error)
    IN /\ Len(body) = Len(pgs)
       /\ \A i \in 1..Len(body) :
            /\ body[i].kind = "pg"
            /\ body[i].pg = pgs[i]
            /\ body[i].chan \in {"Info", "Warning", "Error"}
            /\ body[i].chan = "Info" <=> pgs[i].stateName = ActiveClean
            /\ body[i].chan = "Error" <=> errName(pgs[i].stateName)
            /\ body[i].chan = "Warning" <=>
                 (pgs[i].stateName # ActiveClean /\ ~errName(pgs[i].stateName))
       /\ term \in {"running", "done"}

C4_Witness ==
  /\ cur = "pg"
  /\ \E i \in 1..Len(out) :
       /\ out[i].kind = "pg"
       /\ out[i].chan = "Error"
       /\ out[i].pg.stateName =
            S_active \o Plus \o S_undersized \o Plus \o S_degraded \o Plus \o S_down

\* ---------------------------------------------------------------------- C5
\* C5: after its banner the quorum check writes exactly one line, the health
\* value, on Info for "HEALTH_OK", on Warning for "HEALTH_WARN", on Error for
\* "HEALTH_ERR", and writes nothing for any other value.
C5_HealthMapping ==
  (cur = "quorum" /\ cephStatusOut.form = "object") =>
    LET h == IF cephStatusOut.hasStatus THEN cephStatusOut.status ELSE ""
        body == After("Checking mon quorum and ceph health details")
    IN /\ h = "HEALTH_OK" => body = <<Log("Info", h, "")>>
       /\ h = "HEALTH_WARN" => body = <<Log("Warning", h, "")>>
       /\ h = "HEALTH_ERR" => body = <<Log("Error", h, "")>>
       /\ h \notin {"HEALTH_OK", "HEALTH_WARN", "HEALTH_ERR"} => body = << >>

C5_Witness ==
  /\ cur = "quorum"
  /\ cephStatusOut.hasStatus
  /\ cephStatusOut.status = "health_ok"
  /\ After("Checking mon quorum and ceph health details") = << >>

\* ---------------------------------------------------------------------- C6
\* C6: decoding a JSON object fails when health.status or pgmap.pgs_by_state
\* is absent, and succeeds when both are present whatever else it carries.
C6_RequiredFields ==
  (cur \in {"quorum", "pg"} /\ cephStatusOut.form = "object") =>
    /\ (~cephStatusOut.hasStatus \/ ~cephStatusOut.hasPgs) => term = "exit"
    /\ (cephStatusOut.hasStatus /\ cephStatusOut.hasPgs) => term \in {"running", "done"}

\* ---------------------------------------------------------------------- C7
\* C7: the pod census queries the operator namespace once and the cluster
\* namespace iff it differs; every returned pod is printed exactly once, the
\* Running ones between the Info banner and the Warning banner and the others
\* after the Warning banner, operator-namespace pods before cluster-namespace
\* pods and each namespace's pods in query order; both banners are written
\* whatever the sets hold.
C7_Census ==
  cur = "pods" =>
    LET info == Idx(out, LAMBDA l : l.text = "Pods that are in 'Running' status" /\ l.chan = "Info")
        warn == Idx(out, LAMBDA l : l.text = "Pods that are 'Not' in 'Running' status" /\ l.chan = "Warning")
        lines == Idx(out, IsPodLine)
        Rank(p) == CHOOSE k \in 1..Len(podLists) :
                     \E i \in 1..Len(podLists[k].items) : podLists[k].items[i] = p
        Pos(p) == CHOOSE i \in 1..Len(podLists[Rank(p)].items) : podLists[Rank(p)].items[i] = p
    IN /\ CurEvents = IF operatorNamespace # clusterNamespace
                      THEN <<E("list", operatorNamespace, NoLabel),
                             E("list", clusterNamespace, NoLabel)>>
                      ELSE <<E("list", operatorNamespace, NoLabel)>>
       /\ Len(podLists) = Len(CurEvents)
       /\ \A k \in 1..Len(podLists) : \A i \in 1..Len(podLists[k].items) :
            Cardinality({j \in lines : out[j].pod = podLists[k].items[i]}) = 1
       /\ \A j \in lines : \E k \in 1..Len(podLists) : \E i \in 1..Len(podLists[k].items) :
            out[j].pod = podLists[k].items[i]
       /\ Cardinality(info) = 1
       /\ Cardinality(warn) = 1
       /\ \A a \in info : \A b \in warn :
            /\ a < b
            /\ \A j \in lines :
                 /\ out[j].pod.phase = "Running" => (a < j /\ j < b)
                 /\ out[j].pod.phase # "Running" => b < j
       /\ \A j1 \in lines : \A j2 \in lines :
            (j1 < j2 /\ (out[j1].pod.phase = "Running") = (out[j2].pod.phase = "Running")) =>
              \/ Rank(out[j1].pod) < Rank(out[j2].pod)
              \/ /\ Rank(out[j1].pod) = Rank(out[j2].pod)
                 /\ Pos(out[j1].pod) < Pos(out[j2].pod)

C7_Witness ==
  /\ cur = "pods"
  /\ operatorNamespace = clusterNamespace
  /\ Len(podLists[1].items) = 2
  /\ Len(PodsPrinted) = 2
  /\ podLists[1].items[1].phase = "Failed"
  /\ podLists[1].items[2].phase = "Running"

\* ---------------------------------------------------------------------- C8
\* C8: the mon and the osd node-distribution check write one Warning naming
\* the role iff the role's pods, of any phase, run on fewer than three
\* distinct nodes, and always print the pods one per line in query order;
\* the node map keeps the first pod seen on each node.
C8_NodeDistribution ==
  cur \in {"mon", "osd"} =>
    LET items == podLists[1].items
        warnings == Idx(out, IsWarning)
    IN /\ Cardinality(warnings) =
            IF Cardinality(DistinctNodes(items)) < 3 THEN 1 ELSE 0
       /\ \A w \in warnings : out[w].arg = cur
       /\ PodsPrinted = items
       /\ DOMAIN NodeList(items) = DistinctNodes(items)
       /\ \A i \in 1..Len(items) :
            (\A j \in 1..(i - 1) : items[j].nodeName # items[i].nodeName) =>
              NodeList(items)[items[i].nodeName] = items[i].name

C8_Witness ==
  /\ cur = "mon"
  /\ Len(podLists[1].items) = 3
  /\ Cardinality(DistinctNodes(podLists[1].items)) = 2
  /\ \E i \in 1..3 : podLists[1].items[i].phase = "Pending"
  /\ Cardinality(Idx(out, IsWarning)) = 1
  /\ Len(PodsPrinted) = 3

\* ---------------------------------------------------------------------- C9
\* C9: the manager check makes one query, for the mgr label in the cluster
\* namespace; when it succeeds with no pod the check writes one Warning and
\* no listing line, and with pods of any phase it writes no Warning and
\* prints the pods one per line.
C9_MgrCount ==
  cur = "mgr" =>
    /\ CurEvents = <<E("list", clusterNamespace, LabelMgr)>>
    /\ ~podLists[1].err =>
         LET items == podLists[1].items
             warnings == Idx(out, IsWarning)
         IN /\ Len(items) = 0 =>
                 /\ Cardinality(warnings) = 1
                 /\ \A w \in warnings : out[w].text = "At least one mgr pod should be running"
                 /\ PodsPrinted = << >>
            /\ Len(items) > 0 =>
                 /\ warnings = {}
                 /\ PodsPrinted = items

C9_Witness ==
  /\ cur = "mgr"
  /\ ~podLists[1].err
  /\ Len(podLists[1].items) = 1
  /\ podLists[1].items[1].phase = "Pending"
  /\ Idx(out, IsWarning) = {}
  /\ Len(PodsPrinted) = 1

\* --------------------------------------------------------------------- C10
\* C10: a ceph invocation runs its arguments in exactly one pod, the OSD pod
\* for `daemon osd.N ...` and the operator pod otherwise, after the
\* operator-pod verification.
C10_OneTarget ==
  cur = "ceph" =>
    LET execs == Idx(trace, IsExec)
        toOsd == /\ args[1] = S_daemon
                 /\ Len(args) > 1
                 /\ HasPrefix(args[2], S_osdDot)
    IN /\ Cardinality(execs) = 1
       /\ \A i \in execs :
            /\ trace[i].who = IF toOsd THEN "osd" ELSE "operator"
            /\ \E j \in 1..(i - 1) : trace[j].ev = "verify"

====
